---- MODULE Spec2Model ----
(***************************************************************************)
(* Job orchestration layer of the transcription service (src/main.py).     *)
(*                                                                         *)
(* Threads of control:                                                     *)
(*   - the asyncio event loop runs the request handlers; between two       *)
(*     awaits a handler is atomic with respect to the other handlers;      *)
(*   - run_transcription_job (a plain def given to BackgroundTasks) and    *)
(*     process_transcription (asyncio.to_thread) run on worker threads and *)
(*     interleave with the event loop statement by statement.              *)
(* `loop` records the handler that currently occupies the event loop       *)
(* thread (delete_job is followed statement by statement because a worker  *)
(* thread can run between its statements).                                 *)
(*                                                                         *)
(* Two specifications share the variables: Spec is the job API            *)
(* (/job/...), SyncSpec is the synchronous endpoint (/transcribe/).  They  *)
(* touch disjoint paths and no common data.                                *)
(***************************************************************************)
EXTENDS Integers, FiniteSets, Sequences, TLC

\* ------------------------------------------------------------------ bounds
\* MaxIds: the job ids the model can name; MaxJobs: the CreateJob calls of the
\* full job API specification (Spec); CreateSpec creates up to MaxIds jobs
MaxIds == 2
MaxJobs == 1
MaxFetch == 2
MaxReq == 2

JobIds == 1..MaxIds
ReqIds == 1..MaxReq
\* upload bodies and wall-clock readings the requests are drawn from
AudioBytes == {"clipA", "clipB"}
Times == {"t1", "t2"}

VARIABLES
    jobs,       \* the registry: job id -> record, NoJob when the key is absent
    files,      \* storage: path -> content, NoFile when the path does not exist
    dirs,       \* job ids whose directory jobs/<id> exists
    nextId,     \* ids handed out so far (uuid4 never repeats an id)
    cpc,        \* create_transcription_job per id: where the handler stands
    epc,        \* run_transcription_job per id: where the thread stands
    eres,       \* run_transcription_job per id: the engine result it holds
    eexc,       \* run_transcription_job per id: str(e) of the exception caught
    loop,       \* the handler occupying the event loop thread
    bg,         \* per id: cleanup_job background callables not yet run
    fetches,    \* per id: successful get_job_result calls so far
    timers,     \* per id: delayed_cleanup coroutines sleeping
    deleted,    \* per id: the functions that executed `del jobs[job_id]`, in order
    raised,     \* <<function, id>>: exceptions that left a function uncaught
    last,       \* the response sent by the step just taken (NoResp: none was sent)
    spc,        \* transcribe() per request: where the handler stands
    wpc,        \* process_transcription per request: where the thread stands
    wres,       \* process_transcription per request: the engine result it holds
    hnd,        \* transcribe() per request: inode behind its open audio handle
    whnd,       \* process_transcription per request: inode behind its open handle
    resp,       \* transcribe() per request: status code sent to the client
    removes     \* transcribe() per request: calls of remove_temp_files

jobVars == <<jobs, dirs, nextId, cpc, epc, eres, eexc, loop, bg, fetches,
             timers, deleted, raised, last>>
syncVars == <<spc, wpc, wres, hnd, whnd, resp, removes>>
vars == <<jobs, files, dirs, nextId, cpc, epc, eres, eexc, loop, bg, fetches,
          timers, deleted, raised, last, spc, wpc, wres, hnd, whnd, resp, removes>>

\* ------------------------------------------------------------- file system
\* `ino` tells the inodes a shared path has named over time apart: the number of
\* the request that created the file, 0 for the files of a job directory, whose
\* paths are created once
NoFile == [kind |-> "absent", data |-> "", ino |-> 0]
Empty == [kind |-> "empty", data |-> "", ino |-> 0]
Audio(a) == [kind |-> "audio", data |-> a, ino |-> 0]
\* generate_srt: the subtitle text composed from the engine's segments
Srt(a) == [kind |-> "srt", data |-> a, ino |-> 0]

AudioPath(j) == [dir |-> j, name |-> "audio.mp3"]
SrtPath(j) == [dir |-> j, name |-> "transcription.srt"]
\* the synchronous endpoint names its files after os.getpid(): one pair per process
TempAudio == [dir |-> 0, name |-> "temp_audio_pid.mp3"]
TempSrt == [dir |-> 0, name |-> "transcription_pid.srt"]
Paths == {AudioPath(j) : j \in JobIds} \cup {SrtPath(j) : j \in JobIds}
            \cup {TempAudio, TempSrt}

Exists(p) == files[p] # NoFile

\* remove_temp_files: each path that exists is removed, the others skipped
RemoveTempFiles(fs, ps) == [p \in Paths |-> IF p \in ps THEN NoFile ELSE fs[p]]

\* os.rmdir("jobs/<id>") inside try/except: removes the directory only when empty
Rmdir(ds, fs, j) ==
    IF fs[AudioPath(j)] = NoFile /\ fs[SrtPath(j)] = NoFile THEN ds \ {j} ELSE ds

\* f.write on an open handle: the bytes reach the path only while it is still linked
WriteTo(fs, p, c) == IF fs[p] # NoFile THEN [fs EXCEPT ![p] = c] ELSE fs

\* open(p, "w"/"wb") by request r: truncates the file the path names, or creates one
OpenTrunc(fs, p, r) ==
    [fs EXCEPT ![p] = [Empty EXCEPT !.ino = IF fs[p] # NoFile THEN fs[p].ino ELSE r]]

\* f.write through the handle of inode i: seen at the path only while p names i
WriteIno(fs, p, i, c) ==
    IF fs[p] # NoFile /\ fs[p].ino = i THEN [fs EXCEPT ![p] = [c EXCEPT !.ino = i]] ELSE fs

\* ---------------------------------------------------------------- registry
NoJob == [id |-> 0, status |-> "absent", created_at |-> "", audio_path |-> TempAudio,
          srt_path |-> TempSrt, error |-> ""]
NewJob(j, t) == [id |-> j, status |-> "processing", created_at |-> t,
                 audio_path |-> AudioPath(j), srt_path |-> SrtPath(j), error |-> ""]
InJobs(j) == jobs[j] # NoJob

Idle == [id |-> 0, pc |-> "idle"]
NoResp == [op |-> "none", id |-> 0, code |-> 0, status |-> "", created_at |-> "",
           error |-> "", body |-> NoFile]
Resp(op, j, code) == [NoResp EXCEPT !.op = op, !.id = j, !.code = code]

Init ==
    /\ jobs = [j \in JobIds |-> NoJob]
    /\ files = [p \in Paths |-> NoFile]
    /\ dirs = {}
    /\ nextId = 1
    /\ cpc = [j \in JobIds |-> "none"]
    /\ epc = [j \in JobIds |-> "none"]
    /\ eres = [j \in JobIds |-> ""]
    /\ eexc = [j \in JobIds |-> ""]
    /\ loop = Idle
    /\ bg = [j \in JobIds |-> 0]
    /\ fetches = [j \in JobIds |-> 0]
    /\ timers = [j \in JobIds |-> 0]
    /\ deleted = [j \in JobIds |-> <<>>]
    /\ raised = {}
    /\ last = NoResp
    /\ spc = [r \in ReqIds |-> "idle"]
    /\ wpc = [r \in ReqIds |-> "none"]
    /\ wres = [r \in ReqIds |-> ""]
    /\ hnd = [r \in ReqIds |-> 0]
    /\ whnd = [r \in ReqIds |-> 0]
    /\ resp = [r \in ReqIds |-> 0]
    /\ removes = [r \in ReqIds |-> 0]

\* ------------------------------------------------- create_transcription_job
\* CreateJobBegin that hands the executor to BackgroundTasks before the upload
\* has been read
CreateJobBeginEager ==
    /\ loop = Idle
    /\ nextId \in JobIds
    /\ dirs' = dirs \cup {nextId}
    /\ files' = [files EXCEPT ![AudioPath(nextId)] = Empty]
    /\ cpc' = [cpc EXCEPT ![nextId] = "reading"]
    /\ epc' = [epc EXCEPT ![nextId] = "transcribe"]
    /\ nextId' = nextId + 1
    /\ last' = NoResp
    /\ UNCHANGED <<jobs, eres, eexc, loop, bg, fetches, timers, deleted, raised>>
    /\ UNCHANGED syncVars

\* CreateJobBegin with an id that is not unique per call (as the process id the
\* synchronous endpoint names its files after): every call gets id 1
CreateJobBeginSameId ==
    /\ loop = Idle
    /\ dirs' = dirs \cup {1}
    /\ files' = [files EXCEPT ![AudioPath(1)] = Empty]
    /\ cpc' = [cpc EXCEPT ![1] = "reading"]
    /\ last' = NoResp
    /\ UNCHANGED <<jobs, nextId, epc, eres, eexc, loop, bg, fetches, timers, deleted, raised>>
    /\ UNCHANGED syncVars

\* lines 120-132: uuid4, makedirs, open(audio_path, "wb"), then the handler
\* suspends in `await file.read()`
CreateJobBegin ==
    /\ loop = Idle
    /\ nextId \in JobIds
    /\ dirs' = dirs \cup {nextId}
    /\ files' = [files EXCEPT ![AudioPath(nextId)] = Empty]
    /\ cpc' = [cpc EXCEPT ![nextId] = "reading"]
    /\ nextId' = nextId + 1
    /\ last' = NoResp
    /\ UNCHANGED <<jobs, epc, eres, eexc, loop, bg, fetches, timers, deleted, raised>>
    /\ UNCHANGED syncVars

\* lines 132-153: the upload arrives and is written, the record is inserted and
\* the executor is handed to BackgroundTasks
CreateJobStore(j) ==
    /\ loop = Idle
    /\ cpc[j] = "reading"
    /\ \E a \in AudioBytes, t \in Times :
        /\ files' = WriteTo(files, AudioPath(j), Audio(a))
        /\ jobs' = [jobs EXCEPT ![j] = NewJob(j, t)]
    /\ cpc' = [cpc EXCEPT ![j] = "done"]
    /\ epc' = [epc EXCEPT ![j] = "transcribe"]
    /\ last' = [Resp("CreateJob", j, 202) EXCEPT !.status = "processing"]
    /\ UNCHANGED <<dirs, nextId, eres, eexc, loop, bg, fetches, timers, deleted, raised>>
    /\ UNCHANGED syncVars

\* CreateJobFail with the record inserted and the executor scheduled before the
\* upload is persisted
CreateJobFailAfterInsert(j) ==
    /\ loop = Idle
    /\ cpc[j] = "reading"
    /\ cpc' = [cpc EXCEPT ![j] = "failed"]
    /\ \E t \in Times : jobs' = [jobs EXCEPT ![j] = NewJob(j, t)]
    /\ epc' = [epc EXCEPT ![j] = "transcribe"]
    /\ raised' = raised \cup {<<"create_transcription_job", j>>}
    /\ last' = Resp("CreateJob", j, 500)
    /\ UNCHANGED <<files, dirs, nextId, eres, eexc, loop, bg, fetches, timers, deleted>>
    /\ UNCHANGED syncVars

\* lines 131-133: reading or writing the upload raises; nothing catches it, the
\* framework answers 500, lines 136-151 are not reached
CreateJobFail(j) ==
    /\ loop = Idle
    /\ cpc[j] = "reading"
    /\ cpc' = [cpc EXCEPT ![j] = "failed"]
    /\ raised' = raised \cup {<<"create_transcription_job", j>>}
    /\ last' = Resp("CreateJob", j, 500)
    /\ UNCHANGED <<jobs, files, dirs, nextId, epc, eres, eexc, loop, bg, fetches,
                   timers, deleted>>
    /\ UNCHANGED syncVars

\* ---------------------------------------------------- run_transcription_job
\* Runs on a worker thread once the response of create_transcription_job has
\* been sent; its steps interleave with the handlers on the event loop.
ExecVars == <<dirs, nextId, cpc, loop, bg, fetches, timers, deleted>>

\* the `except Exception as e` clause is entered with str(e) = msg
ExecCatch(j, msg) ==
    /\ epc' = [epc EXCEPT ![j] = "except"]
    /\ eexc' = [eexc EXCEPT ![j] = msg]

\* line 159: model.transcribe(audio_path) loads the audio file and may raise
ExecTranscribe(j) ==
    /\ epc[j] = "transcribe"
    /\ \/ /\ files[AudioPath(j)].kind = "audio"
          /\ epc' = [epc EXCEPT ![j] = "align"]
          /\ eres' = [eres EXCEPT ![j] = files[AudioPath(j)].data]
          /\ UNCHANGED eexc
       \/ /\ files[AudioPath(j)].kind = "audio"
          /\ ExecCatch(j, "EngineError")
          /\ UNCHANGED eres
       \/ /\ files[AudioPath(j)].kind # "audio"
          /\ ExecCatch(j, "FileNotFoundError")
          /\ UNCHANGED eres
    /\ UNCHANGED <<jobs, files, raised>>
    /\ UNCHANGED ExecVars
    /\ last' = NoResp
    /\ UNCHANGED syncVars

\* line 162: whisperx.align(..., audio_path, device) loads the audio file again
ExecAlign(j) ==
    /\ epc[j] = "align"
    /\ \/ /\ files[AudioPath(j)].kind = "audio"
          /\ epc' = [epc EXCEPT ![j] = "open"]
          /\ UNCHANGED eexc
       \/ /\ files[AudioPath(j)].kind = "audio"
          /\ ExecCatch(j, "EngineError")
       \/ /\ files[AudioPath(j)].kind # "audio"
          /\ ExecCatch(j, "FileNotFoundError")
    /\ UNCHANGED <<jobs, files, eres, raised>>
    /\ UNCHANGED ExecVars
    /\ last' = NoResp
    /\ UNCHANGED syncVars

\* line 165 -> generate_srt line 40: open(file_path, "w") creates or truncates
\* the artifact; it raises when the job directory is gone
ExecOpen(j) ==
    /\ epc[j] = "open"
    /\ IF j \in dirs
         THEN /\ files' = [files EXCEPT ![SrtPath(j)] = Empty]
              /\ epc' = [epc EXCEPT ![j] = "write"]
              /\ UNCHANGED eexc
         ELSE /\ ExecCatch(j, "FileNotFoundError")
              /\ UNCHANGED files
    /\ UNCHANGED <<jobs, eres, raised>>
    /\ UNCHANGED ExecVars
    /\ last' = NoResp
    /\ UNCHANGED syncVars

\* generate_srt line 41: f.write(srt_content) and the close of the with block;
\* an I/O error leaves what open() created
ExecWrite(j) ==
    /\ epc[j] = "write"
    /\ \/ /\ files' = WriteTo(files, SrtPath(j), Srt(eres[j]))
          /\ epc' = [epc EXCEPT ![j] = "update"]
          /\ UNCHANGED eexc
       \/ /\ ExecCatch(j, "OSError")
          /\ UNCHANGED files
    /\ UNCHANGED <<jobs, eres, raised>>
    /\ UNCHANGED ExecVars
    /\ last' = NoResp
    /\ UNCHANGED syncVars

\* ExecUpdate with the status set before the end of the try block: a statement
\* after it raises and the except clause runs on a completed job
ExecUpdateFallThrough(j) ==
    /\ epc[j] = "update"
    /\ IF InJobs(j)
         THEN /\ jobs' = [jobs EXCEPT ![j].status = "completed"]
              /\ ExecCatch(j, "OSError")
         ELSE /\ ExecCatch(j, "KeyError")
              /\ UNCHANGED jobs
    /\ UNCHANGED <<files, eres, raised>>
    /\ UNCHANGED ExecVars
    /\ last' = NoResp
    /\ UNCHANGED syncVars

\* line 168: jobs[job_id]["status"] = "completed", the last statement of the try
\* block; a KeyError is caught by line 170
ExecUpdate(j) ==
    /\ epc[j] = "update"
    /\ IF InJobs(j)
         THEN /\ jobs' = [jobs EXCEPT ![j].status = "completed"]
              /\ epc' = [epc EXCEPT ![j] = "done"]
              /\ UNCHANGED eexc
         ELSE /\ ExecCatch(j, "KeyError")
              /\ UNCHANGED jobs
    /\ UNCHANGED <<files, eres, raised>>
    /\ UNCHANGED ExecVars
    /\ last' = NoResp
    /\ UNCHANGED syncVars

\* a KeyError raised inside the except clause leaves run_transcription_job
ExecEscape(j) ==
    /\ epc' = [epc EXCEPT ![j] = "crashed"]
    /\ raised' = raised \cup {<<"run_transcription_job", j>>}
    /\ UNCHANGED jobs

\* ExecExcept as "except Exception: pass": the run ends without a status
ExecExceptSwallow(j) ==
    /\ epc[j] = "except"
    /\ epc' = [epc EXCEPT ![j] = "done"]
    /\ UNCHANGED <<jobs, files, eres, eexc, raised>>
    /\ UNCHANGED ExecVars
    /\ last' = NoResp
    /\ UNCHANGED syncVars

\* ExecExcept that stores a new record when the key is gone
ExecExceptRecreate(j) ==
    /\ epc[j] = "except"
    /\ jobs' = [jobs EXCEPT ![j] = [(IF InJobs(j) THEN jobs[j] ELSE NewJob(j, "t1"))
                                       EXCEPT !.status = "failed"]]
    /\ epc' = [epc EXCEPT ![j] = "error"]
    /\ UNCHANGED <<files, eres, eexc, raised>>
    /\ UNCHANGED ExecVars
    /\ last' = NoResp
    /\ UNCHANGED syncVars

\* line 172: jobs[job_id]["status"] = "failed"
ExecExcept(j) ==
    /\ epc[j] = "except"
    /\ IF InJobs(j)
         THEN /\ jobs' = [jobs EXCEPT ![j].status = "failed"]
              /\ epc' = [epc EXCEPT ![j] = "error"]
              /\ UNCHANGED raised
         ELSE ExecEscape(j)
    /\ UNCHANGED <<files, eres, eexc>>
    /\ UNCHANGED ExecVars
    /\ last' = NoResp
    /\ UNCHANGED syncVars

\* line 173: jobs[job_id]["error"] = str(e)
ExecError(j) ==
    /\ epc[j] = "error"
    /\ IF InJobs(j)
         THEN /\ jobs' = [jobs EXCEPT ![j].error = eexc[j]]
              /\ epc' = [epc EXCEPT ![j] = "done"]
              /\ UNCHANGED raised
         ELSE ExecEscape(j)
    /\ UNCHANGED <<files, eres, eexc>>
    /\ UNCHANGED ExecVars
    /\ last' = NoResp
    /\ UNCHANGED syncVars

\* ------------------------------------------------------------ get_job_status
\* lines 176-187
GetStatus(j) ==
    /\ loop = Idle
    /\ last' = IF ~InJobs(j)
                 THEN Resp("GetStatus", j, 404)
                 ELSE [Resp("GetStatus", j, 200) EXCEPT !.status = jobs[j].status,
                                                        !.created_at = jobs[j].created_at,
                                                        !.error = jobs[j].error]
    /\ UNCHANGED <<jobs, files, dirs, nextId, cpc, epc, eres, eexc, loop, bg, fetches,
                   timers, deleted, raised>>
    /\ UNCHANGED syncVars

\* ------------------------------------------------------------ get_job_result
\* GetResult without the test of line 200: a failed job is served like a completed one
GetResultSkipFailed(j) ==
    /\ loop = Idle
    /\ IF ~InJobs(j)
         THEN /\ last' = Resp("GetResult", j, 404)
              /\ UNCHANGED <<bg, fetches>>
         ELSE IF jobs[j].status = "processing"
         THEN /\ last' = Resp("GetResult", j, 202)
              /\ UNCHANGED <<bg, fetches>>
         ELSE /\ fetches[j] < MaxFetch
              /\ last' = [Resp("GetResult", j, 200) EXCEPT !.body = files[jobs[j].srt_path]]
              /\ bg' = [bg EXCEPT ![j] = @ + 1]
              /\ fetches' = [fetches EXCEPT ![j] = @ + 1]
    /\ UNCHANGED <<jobs, files, dirs, nextId, cpc, epc, eres, eexc, loop, timers,
                   deleted, raised>>
    /\ UNCHANGED syncVars

\* GetResult that deletes the job with the response instead of arming the timer
GetResultDeleting(j) ==
    /\ loop = Idle
    /\ IF ~InJobs(j)
         THEN /\ last' = Resp("GetResult", j, 404)
              /\ UNCHANGED <<jobs, files, dirs, deleted, fetches>>
         ELSE IF jobs[j].status = "processing"
         THEN /\ last' = Resp("GetResult", j, 202)
              /\ UNCHANGED <<jobs, files, dirs, deleted, fetches>>
         ELSE IF jobs[j].status = "failed"
         THEN /\ last' = [Resp("GetResult", j, 500) EXCEPT !.error = jobs[j].error]
              /\ UNCHANGED <<jobs, files, dirs, deleted, fetches>>
         ELSE /\ fetches[j] < MaxFetch
              /\ last' = [Resp("GetResult", j, 200) EXCEPT !.body = files[jobs[j].srt_path]]
              /\ fetches' = [fetches EXCEPT ![j] = @ + 1]
              /\ files' = RemoveTempFiles(files, {jobs[j].audio_path, jobs[j].srt_path})
              /\ dirs' = Rmdir(dirs, files', j)
              /\ jobs' = [jobs EXCEPT ![j] = NoJob]
              /\ deleted' = [deleted EXCEPT ![j] = Append(@, "get_job_result")]
    /\ UNCHANGED <<nextId, cpc, epc, eres, eexc, loop, bg, timers, raised>>
    /\ UNCHANGED syncVars

\* lines 190-214; the FileResponse carries the cleanup_job background callable
GetResult(j) ==
    /\ loop = Idle
    /\ IF ~InJobs(j)
         THEN /\ last' = Resp("GetResult", j, 404)
              /\ UNCHANGED <<bg, fetches>>
         ELSE IF jobs[j].status = "processing"
         THEN /\ last' = Resp("GetResult", j, 202)
              /\ UNCHANGED <<bg, fetches>>
         ELSE IF jobs[j].status = "failed"
         THEN /\ last' = [Resp("GetResult", j, 500) EXCEPT !.error = jobs[j].error]
              /\ UNCHANGED <<bg, fetches>>
         ELSE /\ fetches[j] < MaxFetch
              /\ last' = [Resp("GetResult", j, 200) EXCEPT !.body = files[jobs[j].srt_path]]
              /\ bg' = [bg EXCEPT ![j] = @ + 1]
              /\ fetches' = [fetches EXCEPT ![j] = @ + 1]
    /\ UNCHANGED <<jobs, files, dirs, nextId, cpc, epc, eres, eexc, loop, timers,
                   deleted, raised>>
    /\ UNCHANGED syncVars

\* lines 204-207: cleanup_job is a plain def, so the BackgroundTask runs it after
\* the response; asyncio.create_task needs a running loop in the calling thread:
\* it schedules delayed_cleanup when there is one and raises RuntimeError when the
\* callable runs on a worker thread
CleanupJob(j) ==
    /\ bg[j] > 0
    /\ bg' = [bg EXCEPT ![j] = @ - 1]
    /\ \/ /\ timers' = [timers EXCEPT ![j] = @ + 1]
          /\ UNCHANGED raised
       \/ /\ raised' = raised \cup {<<"cleanup_job", j>>}
          /\ UNCHANGED timers
    /\ last' = NoResp
    /\ UNCHANGED <<jobs, files, dirs, nextId, cpc, epc, eres, eexc, loop, fetches, deleted>>
    /\ UNCHANGED syncVars

\* ----------------------------------------------------------- delayed_cleanup
\* DelayedCleanup without the membership test of line 219
DelayedCleanupNoCheck(j) ==
    /\ loop = Idle
    /\ timers[j] > 0
    /\ timers' = [timers EXCEPT ![j] = @ - 1]
    /\ IF InJobs(j)
         THEN /\ files' = RemoveTempFiles(files, {jobs[j].audio_path, jobs[j].srt_path})
              /\ dirs' = Rmdir(dirs, files', j)
              /\ jobs' = [jobs EXCEPT ![j] = NoJob]
              /\ deleted' = [deleted EXCEPT ![j] = Append(@, "delayed_cleanup")]
              /\ UNCHANGED raised
         ELSE /\ raised' = raised \cup {<<"delayed_cleanup", j>>}
              /\ UNCHANGED <<jobs, files, dirs, deleted>>
    /\ last' = NoResp
    /\ UNCHANGED <<nextId, cpc, epc, eres, eexc, loop, bg, fetches>>
    /\ UNCHANGED syncVars

\* lines 216-229: after the sleep, on the event loop, without an await
DelayedCleanup(j) ==
    /\ loop = Idle
    /\ timers[j] > 0
    /\ timers' = [timers EXCEPT ![j] = @ - 1]
    /\ IF InJobs(j)
         THEN /\ files' = RemoveTempFiles(files, {jobs[j].audio_path, jobs[j].srt_path})
              /\ dirs' = Rmdir(dirs, files', j)
              /\ jobs' = [jobs EXCEPT ![j] = NoJob]
              /\ deleted' = [deleted EXCEPT ![j] = Append(@, "delayed_cleanup")]
         ELSE UNCHANGED <<jobs, files, dirs, deleted>>
    /\ last' = NoResp
    /\ UNCHANGED <<nextId, cpc, epc, eres, eexc, loop, bg, fetches, raised>>
    /\ UNCHANGED syncVars

\* ---------------------------------------------------------------- delete_job
DeleteVars == <<nextId, cpc, epc, eres, eexc, bg, fetches, timers>>

\* DeleteJob without the membership test of lines 234-235
DeleteJobNoCheck(j) ==
    /\ loop = Idle
    /\ files' = RemoveTempFiles(files, {AudioPath(j)})
    /\ loop' = [id |-> j, pc |-> "rm_srt"]
    /\ last' = NoResp
    /\ UNCHANGED <<jobs, dirs, deleted, raised>>
    /\ UNCHANGED DeleteVars
    /\ UNCHANGED syncVars

\* lines 234-240: the membership test, then remove_temp_files reaches audio_path
DeleteJob(j) ==
    /\ loop = Idle
    /\ IF ~InJobs(j)
         THEN /\ last' = Resp("DeleteJob", j, 404)
              /\ UNCHANGED <<files, loop>>
         ELSE /\ files' = RemoveTempFiles(files, {AudioPath(j)})
              /\ loop' = [id |-> j, pc |-> "rm_srt"]
              /\ last' = NoResp
    /\ UNCHANGED <<jobs, dirs, deleted, raised>>
    /\ UNCHANGED DeleteVars
    /\ UNCHANGED syncVars

\* line 240: remove_temp_files reaches srt_path
DeleteRemoveSrt(j) ==
    /\ loop = [id |-> j, pc |-> "rm_srt"]
    /\ files' = RemoveTempFiles(files, {SrtPath(j)})
    /\ loop' = [id |-> j, pc |-> "rmdir"]
    /\ last' = NoResp
    /\ UNCHANGED <<jobs, dirs, deleted, raised>>
    /\ UNCHANGED DeleteVars
    /\ UNCHANGED syncVars

\* lines 243-246
DeleteRmdir(j) ==
    /\ loop = [id |-> j, pc |-> "rmdir"]
    /\ dirs' = Rmdir(dirs, files, j)
    /\ loop' = [id |-> j, pc |-> "del"]
    /\ last' = NoResp
    /\ UNCHANGED <<jobs, files, deleted, raised>>
    /\ UNCHANGED DeleteVars
    /\ UNCHANGED syncVars

\* lines 249-251: del jobs[job_id] raises KeyError when the key is gone
DeleteDel(j) ==
    /\ loop = [id |-> j, pc |-> "del"]
    /\ loop' = Idle
    /\ IF InJobs(j)
         THEN /\ jobs' = [jobs EXCEPT ![j] = NoJob]
              /\ deleted' = [deleted EXCEPT ![j] = Append(@, "delete_job")]
              /\ last' = Resp("DeleteJob", j, 200)
              /\ UNCHANGED raised
         ELSE /\ raised' = raised \cup {<<"delete_job", j>>}
              /\ last' = Resp("DeleteJob", j, 500)
              /\ UNCHANGED <<jobs, deleted>>
    /\ UNCHANGED <<files, dirs>>
    /\ UNCHANGED DeleteVars
    /\ UNCHANGED syncVars

\* ------------------------------------------------------- job API specification
Next ==
    \/ nextId <= MaxJobs /\ CreateJobBegin
    \/ \E j \in JobIds : CreateJobStore(j)
    \/ \E j \in JobIds : CreateJobFail(j)
    \/ \E j \in JobIds : ExecTranscribe(j)
    \/ \E j \in JobIds : ExecAlign(j)
    \/ \E j \in JobIds : ExecOpen(j)
    \/ \E j \in JobIds : ExecWrite(j)
    \/ \E j \in JobIds : ExecUpdate(j)
    \/ \E j \in JobIds : ExecExcept(j)
    \/ \E j \in JobIds : ExecError(j)
    \/ \E j \in JobIds : GetStatus(j)
    \/ \E j \in JobIds : GetResult(j)
    \/ \E j \in JobIds : CleanupJob(j)
    \/ \E j \in JobIds : DelayedCleanup(j)
    \/ \E j \in JobIds : DeleteJob(j)
    \/ \E j \in JobIds : DeleteRemoveSrt(j)
    \/ \E j \in JobIds : DeleteRmdir(j)
    \/ \E j \in JobIds : DeleteDel(j)

Spec == Init /\ [][Next]_vars

\* lines 155-173: the steps of the run_transcription_job call of job j
Executor(j) ==
    \/ ExecTranscribe(j)
    \/ ExecAlign(j)
    \/ ExecOpen(j)
    \/ ExecWrite(j)
    \/ ExecUpdate(j)
    \/ ExecExcept(j)
    \/ ExecError(j)

\* the job API when the thread pool schedules every executor that can take a
\* step, and the engine calls (lines 159 and 162) return or raise
FairSpec == Spec /\ \A j \in JobIds : WF_vars(Executor(j))

\* creation, execution and polling of up to MaxIds jobs side by side
CreateNext ==
    \/ CreateJobBegin
    \/ \E j \in JobIds : CreateJobStore(j)
    \/ \E j \in JobIds : CreateJobFail(j)
    \/ \E j \in JobIds : ExecTranscribe(j)
    \/ \E j \in JobIds : ExecAlign(j)
    \/ \E j \in JobIds : ExecOpen(j)
    \/ \E j \in JobIds : ExecWrite(j)
    \/ \E j \in JobIds : ExecUpdate(j)
    \/ \E j \in JobIds : ExecExcept(j)
    \/ \E j \in JobIds : ExecError(j)
    \/ \E j \in JobIds : GetStatus(j)

CreateSpec == Init /\ [][CreateNext]_vars

\* ------------------------------------------------------ transcribe (POST /transcribe/)
TempFiles == {TempAudio, TempSrt}

\* lines 54-64: the path names are built, open(file_location, "wb"), then the
\* handler suspends in `await file.read()`
SyncBegin(r) ==
    /\ spc[r] = "idle"
    /\ files' = OpenTrunc(files, TempAudio, r)
    /\ hnd' = [hnd EXCEPT ![r] = files'[TempAudio].ino]
    /\ spc' = [spc EXCEPT ![r] = "uploading"]
    /\ UNCHANGED <<wpc, wres, whnd, resp, removes>>
    /\ UNCHANGED jobVars

\* lines 64-80: the upload is written, the worker thread is started and the
\* handler waits for it under the deadline
SyncStore(r) ==
    /\ spc[r] = "uploading"
    /\ \E a \in AudioBytes : files' = WriteIno(files, TempAudio, hnd[r], Audio(a))
    /\ spc' = [spc EXCEPT ![r] = "executing"]
    /\ wpc' = [wpc EXCEPT ![r] = "transcribe"]
    /\ UNCHANGED <<wres, hnd, whnd, resp, removes>>
    /\ UNCHANGED jobVars

\* lines 96-102: the except clause of the outer try: cleanup, then the 500 response
SyncFailed(r) ==
    /\ files' = RemoveTempFiles(files, TempFiles)
    /\ removes' = [removes EXCEPT ![r] = @ + 1]
    /\ resp' = [resp EXCEPT ![r] = 500]

\* lines 64-65 raise (the upload cannot be read or written): line 96 catches it
SyncStoreFail(r) ==
    /\ spc[r] = "uploading"
    /\ SyncFailed(r)
    /\ spc' = [spc EXCEPT ![r] = "done_err"]
    /\ UNCHANGED <<wpc, wres, hnd, whnd>>
    /\ UNCHANGED jobVars

\* line 107 on the worker thread: model.transcribe(file_location)
WorkerTranscribe(r) ==
    /\ wpc[r] = "transcribe"
    /\ \/ /\ files[TempAudio].kind = "audio"
          /\ wpc' = [wpc EXCEPT ![r] = "align"]
          /\ wres' = [wres EXCEPT ![r] = files[TempAudio].data]
       \/ /\ wpc' = [wpc EXCEPT ![r] = "raised"]
          /\ UNCHANGED wres
    /\ UNCHANGED <<files, spc, hnd, whnd, resp, removes>>
    /\ UNCHANGED jobVars

\* line 110 on the worker thread: whisperx.align loads file_location again
WorkerAlign(r) ==
    /\ wpc[r] = "align"
    /\ \/ /\ files[TempAudio].kind = "audio"
          /\ wpc' = [wpc EXCEPT ![r] = "open"]
       \/ wpc' = [wpc EXCEPT ![r] = "raised"]
    /\ UNCHANGED <<files, spc, wres, hnd, whnd, resp, removes>>
    /\ UNCHANGED jobVars

\* line 113 -> generate_srt line 40: open(srt_file_path, "w")
WorkerOpen(r) ==
    /\ wpc[r] = "open"
    /\ files' = OpenTrunc(files, TempSrt, r)
    /\ whnd' = [whnd EXCEPT ![r] = files'[TempSrt].ino]
    /\ wpc' = [wpc EXCEPT ![r] = "write"]
    /\ UNCHANGED <<spc, wres, hnd, resp, removes>>
    /\ UNCHANGED jobVars

\* generate_srt line 41: f.write(srt_content); an I/O error ends the thread
WorkerWrite(r) ==
    /\ wpc[r] = "write"
    /\ \/ /\ files' = WriteIno(files, TempSrt, whnd[r], Srt(wres[r]))
          /\ wpc' = [wpc EXCEPT ![r] = "done"]
       \/ /\ wpc' = [wpc EXCEPT ![r] = "raised"]
          /\ UNCHANGED files
    /\ UNCHANGED <<spc, wres, hnd, whnd, resp, removes>>
    /\ UNCHANGED jobVars

\* lines 80-90: the worker returned in time; the FileResponse is sent with
\* remove_temp_files as its background task
SyncRespond(r) ==
    /\ spc[r] = "executing"
    /\ wpc[r] = "done"
    /\ resp' = [resp EXCEPT ![r] = 200]
    /\ spc' = [spc EXCEPT ![r] = "responding"]
    /\ UNCHANGED <<files, wpc, wres, hnd, whnd, removes>>
    /\ UNCHANGED jobVars

\* line 83 run after the response: BackgroundTask(remove_temp_files, temp_files)
SyncBackground(r) ==
    /\ spc[r] = "responding"
    /\ files' = RemoveTempFiles(files, TempFiles)
    /\ removes' = [removes EXCEPT ![r] = @ + 1]
    /\ spc' = [spc EXCEPT ![r] = "done_ok"]
    /\ UNCHANGED <<wpc, wres, hnd, whnd, resp>>
    /\ UNCHANGED jobVars

\* line 80 re-raises the worker's exception: line 96 catches it
SyncError(r) ==
    /\ spc[r] = "executing"
    /\ wpc[r] = "raised"
    /\ SyncFailed(r)
    /\ spc' = [spc EXCEPT ![r] = "done_err"]
    /\ UNCHANGED <<wpc, wres, hnd, whnd>>
    /\ UNCHANGED jobVars

\* lines 92-94: the deadline passes while the worker still runs; the thread is
\* not stopped; remove_temp_files, then HTTPException(504) is raised inside the
\* outer try
SyncTimeout(r) ==
    /\ spc[r] = "executing"
    /\ wpc[r] \notin {"done", "raised"}
    /\ files' = RemoveTempFiles(files, TempFiles)
    /\ removes' = [removes EXCEPT ![r] = @ + 1]
    /\ spc' = [spc EXCEPT ![r] = "http504"]
    /\ UNCHANGED <<wpc, wres, hnd, whnd, resp>>
    /\ UNCHANGED jobVars

\* lines 96-102: HTTPException is an Exception, so `except Exception as e`
\* catches the 504 raised at line 94
SyncCatch(r) ==
    /\ spc[r] = "http504"
    /\ SyncFailed(r)
    /\ spc' = [spc EXCEPT ![r] = "done_timeout"]
    /\ UNCHANGED <<wpc, wres, hnd, whnd>>
    /\ UNCHANGED jobVars

SyncNext ==
    \/ \E r \in ReqIds : SyncBegin(r)
    \/ \E r \in ReqIds : SyncStore(r)
    \/ \E r \in ReqIds : SyncStoreFail(r)
    \/ \E r \in ReqIds : WorkerTranscribe(r)
    \/ \E r \in ReqIds : WorkerAlign(r)
    \/ \E r \in ReqIds : WorkerOpen(r)
    \/ \E r \in ReqIds : WorkerWrite(r)
    \/ \E r \in ReqIds : SyncRespond(r)
    \/ \E r \in ReqIds : SyncBackground(r)
    \/ \E r \in ReqIds : SyncError(r)
    \/ \E r \in ReqIds : SyncTimeout(r)
    \/ \E r \in ReqIds : SyncCatch(r)

SyncSpec == Init /\ [][SyncNext]_vars

\* ======================================================================
\* Properties of the job API (checked under Spec)
\* ======================================================================

\* C1: the status stored for a job id changes only from "processing" to
\* "completed" or from "processing" to "failed"; a terminal status never
\* changes, and a record that appears starts at "processing" for an id that
\* was never deleted.
C1_StatusOnlyLeavesProcessing ==
    [][\A j \in JobIds :
        /\ (InJobs(j) /\ jobs'[j] # NoJob) =>
              \/ jobs'[j].status = jobs[j].status
              \/ /\ jobs[j].status = "processing"
                 /\ jobs'[j].status \in {"completed", "failed"}
        /\ (~InJobs(j) /\ jobs'[j] # NoJob) =>
              /\ jobs'[j].status = "processing"
              /\ deleted[j] = <<>>]_vars

\* a reader sees a job whose executor has moved it to a terminal status
C1_Witness ==
    \E j \in JobIds :
        /\ last.op = "GetStatus" /\ last.id = j /\ last.code = 200
        /\ last.status \in {"completed", "failed"}
        /\ epc[j] = "done"

\* C2: the answer of GetResult(j) is decided by the registry state it runs in:
\* 404 when the id is absent, 202 when processing, 500 with the recorded error
\* when failed, and 200 with the artifact stored at srt_path when completed; a
\* 200 is never sent for a job that is not completed.
C2_GetResultByState ==
    \A j \in JobIds :
        (last.op = "GetResult" /\ last.id = j) =>
            \/ ~InJobs(j) /\ last.code = 404 /\ last.body = NoFile
            \/ /\ InJobs(j) /\ jobs[j].status = "processing"
               /\ last.code = 202 /\ last.body = NoFile
            \/ /\ InJobs(j) /\ jobs[j].status = "failed"
               /\ last.code = 500 /\ last.error = jobs[j].error /\ last.body = NoFile
            \/ /\ InJobs(j) /\ jobs[j].status = "completed"
               /\ last.code = 200 /\ last.body = files[SrtPath(j)]
               /\ last.body.kind = "srt"

\* GetResult has answered for a failed job, carrying the error the executor recorded
C2_Witness ==
    \E j \in JobIds :
        /\ last.op = "GetResult" /\ last.id = j /\ last.code = 500
        /\ last.error # "" /\ epc[j] = "done"

\* C3 (as claimed): no exception leaves run_transcription_job.
C3_NoExceptionEscapes ==
    \A j \in JobIds : <<"run_transcription_job", j>> \notin raised

\* C7 (as claimed): a DeleteJob on an id that was already deleted is answered
\* without an error.
C7_SecondDeleteNoError ==
    \A j \in JobIds :
        (last.op = "DeleteJob" /\ last.id = j /\ deleted[j] # <<>>) => last.code = 200

\* C7 (amended): a DeleteJob on an id that was already deleted (by DeleteJob or
\* by the expiry) is answered 404, no exception escapes it, and it leaves the
\* registry and the storage exactly as the first deletion left them.
C7_SecondDeleteNotFound ==
    [][\A j \in JobIds :
        (deleted[j] # <<>> /\ last'.op = "DeleteJob" /\ last'.id = j) =>
            /\ last'.code = 404
            /\ jobs' = jobs /\ files' = files /\ dirs' = dirs
            /\ deleted' = deleted /\ raised' = raised /\ loop' = Idle]_vars

\* a second DeleteJob has been answered for an id DeleteJob had removed
C7_Witness ==
    \E j \in JobIds :
        /\ last.op = "DeleteJob" /\ last.id = j /\ last.code = 404
        /\ deleted[j] = <<"delete_job">>

C9_ExpiryArmed ==
    \A j \in JobIds :
        (fetches[j] > 0 /\ bg[j] = 0 /\ InJobs(j)) => timers[j] > 0

\* C10: a successful GetResult changes neither the registry nor the storage, and
\* from the first successful GetResult on, as long as the job is in the registry
\* and no DeleteJob of it has begun, its record and both files stay as they
\* are, so each further successful GetResult serves the same artifact.
C10_FetchKeepsJob ==
    [][\A j \in JobIds :
        /\ (last'.op = "GetResult" /\ last'.id = j /\ last'.code = 200) =>
              /\ jobs' = jobs /\ files' = files /\ dirs' = dirs
              /\ jobs[j].status = "completed"
              /\ last'.body = files[SrtPath(j)]
        /\ (fetches[j] > 0 /\ InJobs(j) /\ jobs'[j] # NoJob /\ loop.id # j /\ loop'.id # j) =>
              /\ jobs'[j] = jobs[j]
              /\ files'[AudioPath(j)] = files[AudioPath(j)]
              /\ files'[SrtPath(j)] = files[SrtPath(j)]
              /\ files'[SrtPath(j)].kind = "srt"
              /\ j \in dirs']_vars

\* the artifact has been served a second time
C10_Witness ==
    \E j \in JobIds :
        /\ last.op = "GetResult" /\ last.id = j /\ last.code = 200
        /\ last.body.kind = "srt" /\ fetches[j] = 2

\* C11 (as claimed): for every job in the registry the artifact at srt_path
\* exists on storage if and only if the status is "completed".
C11_ArtifactIffCompleted ==
    \A j \in JobIds :
        InJobs(j) => (Exists(SrtPath(j)) <=> jobs[j].status = "completed")

\* C12 (as claimed): what GetStatus and GetResult report carries a non-empty
\* error if and only if the status reported is "failed".
C12_ReaderSeesErrorIffFailed ==
    /\ (last.op = "GetStatus" /\ last.code = 200) =>
          (last.error # "" <=> last.status = "failed")
    /\ (last.op = "GetResult" /\ last.code = 500) => last.error # ""

\* no handler, executor thread, background callable or timer of job j is under way
Quiet(j) ==
    /\ cpc[j] # "reading"
    /\ epc[j] \in {"none", "done", "crashed"}
    /\ loop.id # j
    /\ bg[j] = 0
    /\ timers[j] = 0

\* C13 (as claimed): once the operations on a job id have finished, an id
\* without a registry entry has no audio file, no result file and no directory.
C13_NoOrphans ==
    \A j \in JobIds :
        (Quiet(j) /\ ~InJobs(j)) =>
            /\ ~Exists(AudioPath(j))
            /\ ~Exists(SrtPath(j))
            /\ j \notin dirs

Terminal == {"completed", "failed"}

\* C16 (as claimed): at most one executor run is started per id, and every
\* change of a record in the registry is the executor's single, final update:
\* from "processing" to a terminal status, with the error set in the same step
\* exactly when the status is "failed".
C16_OneAtomicUpdate ==
    [][\A j \in JobIds :
        /\ (epc'[j] = "transcribe" /\ epc[j] # "transcribe") => epc[j] = "none"
        /\ (InJobs(j) /\ jobs'[j] # NoJob /\ jobs'[j] # jobs[j]) =>
              /\ jobs[j].status = "processing"
              /\ jobs'[j].status \in Terminal
              /\ jobs'[j].status = "failed" <=> jobs'[j].error # ""
              /\ epc'[j] = "done"]_vars

\* C17: the executor of a job starts in the step that inserts its record, with
\* status "processing" and the upload written to audio_path; it never runs for
\* an id whose CreateJob has not inserted the record, and neither the registry
\* nor a reader shows a terminal status for such an id.
C17_ExecutorAfterCreate ==
    [][\A j \in JobIds :
        /\ (epc[j] = "none" /\ epc'[j] # "none") =>
              /\ jobs[j] = NoJob
              /\ jobs'[j].status = "processing"
              /\ files'[AudioPath(j)].kind = "audio"
        /\ epc'[j] # "none" => cpc'[j] = "done"
        /\ (jobs'[j] # NoJob /\ jobs'[j].status \in Terminal) => cpc'[j] = "done"
        /\ (last'.id = j /\ last'.op \in {"GetStatus", "GetResult"} /\ last'.code # 404) =>
              cpc'[j] = "done"]_vars

\* the executor has loaded the persisted upload of a job that is still processing
C17_Witness ==
    \E j \in JobIds :
        /\ epc[j] = "align" /\ eres[j] \in AudioBytes
        /\ InJobs(j) /\ jobs[j].status = "processing"
        /\ files[AudioPath(j)] = Audio(eres[j])

\* C18: when persisting the upload fails, the caller gets the failure (the
\* exception leaves the handler, answered 500), the registry is left as it was,
\* and neither a record nor an executor exists for the new id.
C18_FailedUploadLeavesRegistry ==
    [][\A j \in JobIds :
        /\ (cpc[j] = "reading" /\ cpc'[j] = "failed") =>
              /\ last' = Resp("CreateJob", j, 500)
              /\ <<"create_transcription_job", j>> \in raised'
              /\ jobs' = jobs /\ epc' = epc
        /\ cpc'[j] = "failed" => (jobs'[j] = NoJob /\ epc'[j] = "none")]_vars

\* a CreateJob whose upload could not be persisted has been answered
C18_Witness ==
    \E j \in JobIds :
        /\ cpc[j] = "failed" /\ last = Resp("CreateJob", j, 500)
        /\ ~InJobs(j) /\ epc[j] = "none"

\* C19 (checked under FairSpec): a job that is processing is eventually either
\* removed from the registry or terminal ("completed" or "failed"), and stays
\* so; GetStatus answers "processing" only while the record says so, hence a
\* client that polls eventually stops seeing "processing".
C19_EventuallyTerminal ==
    /\ \A j \in JobIds :
          (InJobs(j) /\ jobs[j].status = "processing")
              ~> [](~InJobs(j) \/ jobs[j].status \in Terminal)
    /\ [](\A j \in JobIds :
            (last.op = "GetStatus" /\ last.id = j /\ last.status = "processing") =>
                (InJobs(j) /\ jobs[j].status = "processing"))

\* a poll of a job that was never deleted sees it completed, the artifact stored
C19_Witness ==
    \E j \in JobIds :
        /\ last.op = "GetStatus" /\ last.id = j /\ last.status = "completed"
        /\ deleted[j] = <<>> /\ fetches[j] = 0
        /\ epc[j] = "done" /\ files[SrtPath(j)].kind = "srt"

\* C20: an id that delete_job or delayed_cleanup removed from the registry has
\* no entry in any later state, whatever the executor or a timer does
\* afterwards, and GetStatus and GetResult answer 404 for it.
C20_RemovedStaysRemoved ==
    \A j \in JobIds :
        deleted[j] # <<>> =>
            /\ ~InJobs(j)
            /\ (last.id = j /\ last.op \in {"GetStatus", "GetResult"}) => last.code = 404

\* the executor of a deleted job has ended in its except clause, and a reader
\* asks for the id afterwards
C20_Witness ==
    \E j \in JobIds :
        /\ deleted[j] = <<"delete_job">> /\ epc[j] = "crashed"
        /\ last = Resp("GetStatus", j, 404)

\* ======================================================================
\* Properties of concurrent job creation (checked under CreateSpec)
\* ======================================================================

\* C14: every CreateJob call takes an id no earlier call took, with no registry
\* entry, directory or audio file yet; a record, once inserted, keeps its id,
\* creation time and paths, which lie in its own directory; and a step of the
\* executor of one job leaves the record and the files of every other job as
\* they are.
C14_DistinctJobs ==
    [][\A j \in JobIds :
        /\ (cpc[j] # "reading" /\ cpc'[j] = "reading") =>
              /\ cpc[j] = "none" /\ ~InJobs(j)
              /\ j \notin dirs /\ ~Exists(AudioPath(j)) /\ ~Exists(SrtPath(j))
        /\ (InJobs(j) /\ jobs'[j] # jobs[j]) =>
              jobs'[j] = [jobs[j] EXCEPT !.status = jobs'[j].status,
                                         !.error = jobs'[j].error]
        /\ jobs'[j] # NoJob =>
              /\ jobs'[j].id = j
              /\ jobs'[j].audio_path = AudioPath(j)
              /\ jobs'[j].srt_path = SrtPath(j)
        /\ \A k \in JobIds \ {j} :
              epc'[k] # epc[k] =>
                  /\ jobs'[j] = jobs[j]
                  /\ files'[AudioPath(j)] = files[AudioPath(j)]
                  /\ files'[SrtPath(j)] = files[SrtPath(j)]]_vars

\* two jobs created side by side, each finished by its own executor
C14_Witness ==
    /\ InJobs(1) /\ InJobs(2)
    /\ jobs[1].status = "completed" /\ jobs[2].status = "failed"
    /\ files[SrtPath(1)].kind = "srt" /\ files[AudioPath(2)].kind = "audio"
    /\ epc[1] = "done" /\ epc[2] = "done"

\* ======================================================================
\* Properties of the synchronous endpoint (checked under SyncSpec)
\* ======================================================================
Finished == {"done_ok", "done_err", "done_timeout"}

\* C4 (as claimed): a request whose deadline elapsed is answered with status 504.
C4_TimeoutAnswers504 ==
    \A r \in ReqIds : spc[r] = "done_timeout" => resp[r] = 504

\* C5 (as claimed): a finished request has called remove_temp_files exactly once.
C5_CleanupExactlyOnce ==
    \A r \in ReqIds : spc[r] \in Finished => removes[r] = 1

\* C6 (as claimed): once a timed-out request has been answered, no temp file
\* that this request created exists on storage.
C6_NoTempFileAfterTimeout ==
    \A r \in ReqIds :
        spc[r] = "done_timeout" =>
            \A p \in TempFiles : ~(Exists(p) /\ files[p].ino = r)

\* C15 (as claimed): each request works on its own temp files: the file a
\* request opens for its upload, and the file its worker opens for the
\* artifact, is one that this request created, never the file of another request.
C15_OwnTempFiles ==
    \A r \in ReqIds : hnd[r] \in {0, r} /\ whnd[r] \in {0, r}

====
